---- MODULE Spec2Model ----
(***************************************************************************)
(* Sparse Merkle tree with an append-only node store (db_tree).            *)
(*                                                                         *)
(* Digests are modelled as terms of a free algebra, written in prefix      *)
(* form as sequences of naturals: the combiner two_to_one(l, r) is the     *)
(* term <<0>> \o l \o r, the digest of leaf value v is the atom <<v + 2>>  *)
(* and the default digest is the atom <<1>>.  The encoding is uniquely     *)
(* decodable, so leaf hash and combiner are collision free.  The empty     *)
(* sequence stands for Rust's Option::None.                                *)
(*                                                                         *)
(* Paths are sequences of BOOLEAN, big endian (first bit = choice at the   *)
(* root); index_bits are little endian.  Rust's 0-based zero_hashes[d] is  *)
(* zero_hashes[d + 1] here.                                                *)
(***************************************************************************)
EXTENDS Integers, Sequences, FiniteSets, TLC

VARIABLES height, empty_leaf_hash, zero_hashes, node_hashes, nodes,
          updates, last_update, op, root1, leaves1

vars == <<height, empty_leaf_hash, zero_hashes, node_hashes, nodes,
          updates, last_update, op, root1, leaves1>>

\* ------------------------------------------------------------------ bounds
MaxHeight == 2
MaxUpdates == 2
MaxLeaf == 1

\* ------------------------------------------------------- external hashing
None == <<>>

default_hash == <<1>>

Leaves == 0..MaxLeaf

Hash(leaf_data) == <<leaf_data + 2>>

two_to_one(l, r) == <<0>> \o l \o r

\* --------------------------------------------------------------- helpers
Reverse(s) == [i \in 1..Len(s) |-> s[Len(s) + 1 - i]]

Pop(s) == SubSeq(s, 1, Len(s) - 1)

RECURSIVE BitSeqs(_)
BitSeqs(n) ==
    IF n = 0 THEN {<<>>}
    ELSE {Append(s, b) : s \in BitSeqs(n - 1), b \in BOOLEAN}

\* every index of length n, and one sequence of each other length up to n + 1
IndexInputs(n) ==
    BitSeqs(n) \cup {[i \in 1..k |-> FALSE] : k \in 0..(n + 1)}

\* every path of length at most n, and one longer path
PathInputs(n) ==
    UNION {BitSeqs(k) : k \in 0..n} \cup {[i \in 1..(n + 1) |-> FALSE]}

\* mutant: an existing key keeps its value (insert only if absent)
MapInsert_if_absent(m, k, v) ==
    [x \in (DOMAIN m) \cup {k} |-> IF x \in DOMAIN m THEN m[x] ELSE v]

\* HashMap::insert: adds the entry, or replaces the value of an existing key
MapInsert(m, k, v) == [x \in (DOMAIN m) \cup {k} |-> IF x = k THEN v ELSE m[x]]

\* Option<T>: None is <<>>, Some(x) is <<x>>
Some(x) == <<x>>

unwrap(o) == o[1]

\* ---------------------------------------------------------------- MockDB
Node(l, r) == [left |-> l, right |-> r]

MockDB_new == [x \in {} |-> Node(None, None)]

MockDB_insert(db, key, node) == MapInsert(db, key, node)

MockDB_get(db, key) == IF key \in DOMAIN db THEN Some(db[key]) ELSE None

\* ------------------------------------------------------- MerkleTree::new
\* mutant: the running hash is not advanced from one level to the next
RECURSIVE NewLoop_stale(_, _, _, _)
NewLoop_stale(n, h, zs, db) ==
    IF n = 0 THEN [zero_hashes |-> zs, nodes |-> db]
    ELSE LET new_h == two_to_one(h, h)
         IN  NewLoop_stale(n - 1, h, Append(zs, new_h),
                           MockDB_insert(db, new_h, Node(Some(h), Some(h))))

\* mutant: the record of a default node is stored under its child's digest
RECURSIVE NewLoop_keyed_by_child(_, _, _, _)
NewLoop_keyed_by_child(n, h, zs, db) ==
    IF n = 0 THEN [zero_hashes |-> zs, nodes |-> db]
    ELSE LET new_h == two_to_one(h, h)
         IN  NewLoop_keyed_by_child(n - 1, new_h, Append(zs, new_h),
                                    MockDB_insert(db, h, Node(Some(h), Some(h))))

RECURSIVE NewLoop(_, _, _, _)
NewLoop(n, h, zs, db) ==
    IF n = 0 THEN [zero_hashes |-> zs, nodes |-> db]
    ELSE LET new_h == two_to_one(h, h)
         IN  NewLoop(n - 1, new_h, Append(zs, new_h),
                     MockDB_insert(db, new_h, Node(Some(h), Some(h))))

\* mutant: the zero-hash table is left in leaf-to-root order
MerkleTree_new_unreversed(db, ht, empty) ==
    LET r == NewLoop(ht, empty, <<empty>>, db)
    IN  [height |-> ht,
         node_hashes |-> [x \in {} |-> None],
         zero_hashes |-> r.zero_hashes,
         nodes |-> r.nodes]

MerkleTree_new(db, ht, empty) ==
    LET r == NewLoop(ht, empty, <<empty>>, db)
    IN  [height |-> ht,
         node_hashes |-> [x \in {} |-> None],
         zero_hashes |-> Reverse(r.zero_hashes),
         nodes |-> r.nodes]

\* ----------------------------------------------------------------- reads
\* the match of get_node_hash: the stored hash, or the zero hash of the depth
NodeHash(nh, path) ==
    IF path \in DOMAIN nh THEN nh[path] ELSE zero_hashes[Len(path) + 1]

get_node_hash(nh, path) ==
    IF ~(Len(path) <= height)
    THEN [result |-> "panic_assert", value |-> None]
    ELSE [result |-> "Ok", value |-> NodeHash(nh, path)]

get_root == get_node_hash(node_hashes, <<>>).value

\* mutant: the last bit is dropped instead of flipped (reads the parent)
get_sibling_hash_parent(nh, path) == get_node_hash(nh, Pop(path)).value

get_sibling_hash(nh, path) ==
    LET last == Len(path)
    IN  get_node_hash(nh, [path EXCEPT ![last] = ~path[last]]).value

\* ----------------------------------------------------------- update_leaf
\* mutant: the two branches of the parent hash are exchanged
RECURSIVE UpdateLoop_swapped(_, _, _, _)
UpdateLoop_swapped(nh, db, path, h) ==
    IF path = <<>> THEN [node_hashes |-> nh, nodes |-> db]
    ELSE LET sibling == get_sibling_hash(nh, path)
             b == path[Len(path)]
             parent == Pop(path)
             new_h == IF b THEN two_to_one(h, sibling) ELSE two_to_one(sibling, h)
             node == Node(IF b THEN Some(sibling) ELSE Some(h),
                          IF b THEN Some(h) ELSE Some(sibling))
         IN  UpdateLoop_swapped(MapInsert(nh, parent, new_h),
                                MockDB_insert(db, new_h, node), parent, new_h)

\* mutant: the sibling is recorded in the Node Store as well
RECURSIVE UpdateLoop_sibling_records(_, _, _, _)
UpdateLoop_sibling_records(nh, db, path, h) ==
    IF path = <<>> THEN [node_hashes |-> nh, nodes |-> db]
    ELSE LET sibling == get_sibling_hash(nh, path)
             b == path[Len(path)]
             parent == Pop(path)
             new_h == IF b THEN two_to_one(sibling, h) ELSE two_to_one(h, sibling)
             node == Node(IF b THEN Some(sibling) ELSE Some(h),
                          IF b THEN Some(h) ELSE Some(sibling))
             db1 == IF sibling \in DOMAIN db THEN db
                    ELSE MockDB_insert(db, sibling, Node(None, None))
         IN  UpdateLoop_sibling_records(MapInsert(nh, parent, new_h),
                                        MockDB_insert(db1, new_h, node),
                                        parent, new_h)

\* mutant: the children of the stored record are exchanged
RECURSIVE UpdateLoop_children_swapped(_, _, _, _)
UpdateLoop_children_swapped(nh, db, path, h) ==
    IF path = <<>> THEN [node_hashes |-> nh, nodes |-> db]
    ELSE LET sibling == get_sibling_hash(nh, path)
             b == path[Len(path)]
             parent == Pop(path)
             new_h == IF b THEN two_to_one(sibling, h) ELSE two_to_one(h, sibling)
             node == Node(IF b THEN Some(h) ELSE Some(sibling),
                          IF b THEN Some(sibling) ELSE Some(h))
         IN  UpdateLoop_children_swapped(MapInsert(nh, parent, new_h),
                                         MockDB_insert(db, new_h, node),
                                         parent, new_h)

RECURSIVE UpdateLoop(_, _, _, _)
UpdateLoop(nh, db, path, h) ==
    IF path = <<>> THEN [node_hashes |-> nh, nodes |-> db]
    ELSE LET sibling == get_sibling_hash(nh, path)
             b == path[Len(path)]
             parent == Pop(path)
             new_h == IF b THEN two_to_one(sibling, h) ELSE two_to_one(h, sibling)
             node == Node(IF b THEN Some(sibling) ELSE Some(h),
                          IF b THEN Some(h) ELSE Some(sibling))
         IN  UpdateLoop(MapInsert(nh, parent, new_h),
                        MockDB_insert(db, new_h, node), parent, new_h)

\* mutant: the length is asserted after the leaf has been written
update_leaf_late_assert(nh, db, index_bits, leaf_hash) ==
    LET path == Reverse(index_bits)
        nh1 == MapInsert(nh, path, leaf_hash)
        db1 == MockDB_insert(db, leaf_hash, Node(None, None))
    IN  IF Len(index_bits) # height
        THEN [result |-> "panic_assert", node_hashes |-> nh1, nodes |-> db1]
        ELSE LET r == UpdateLoop(nh1, db1, path, leaf_hash)
             IN  [result |-> "Ok", node_hashes |-> r.node_hashes,
                  nodes |-> r.nodes]

\* mutant: entries equal to the zero hash of their depth are dropped
update_leaf_pruned(nh, db, index_bits, leaf_hash) ==
    IF Len(index_bits) # height
    THEN [result |-> "panic_assert", node_hashes |-> nh, nodes |-> db]
    ELSE LET path == Reverse(index_bits)
             r == UpdateLoop(MapInsert(nh, path, leaf_hash),
                             MockDB_insert(db, leaf_hash, Node(None, None)),
                             path, leaf_hash)
             kept == {p \in DOMAIN r.node_hashes :
                        r.node_hashes[p] # zero_hashes[Len(p) + 1]}
         IN  [result |-> "Ok", node_hashes |-> [p \in kept |-> r.node_hashes[p]],
              nodes |-> r.nodes]

update_leaf(nh, db, index_bits, leaf_hash) ==
    IF Len(index_bits) # height
    THEN [result |-> "panic_assert", node_hashes |-> nh, nodes |-> db]
    ELSE LET path == Reverse(index_bits)
             r == UpdateLoop(MapInsert(nh, path, leaf_hash),
                             MockDB_insert(db, leaf_hash, Node(None, None)),
                             path, leaf_hash)
         IN  [result |-> "Ok", node_hashes |-> r.node_hashes, nodes |-> r.nodes]

\* ------------------------------------------------------------------ prove
\* mutant: each sibling is put in front (the proof comes out root-to-leaf)
RECURSIVE ProveLoop_prepend(_, _, _)
ProveLoop_prepend(nh, path, siblings) ==
    IF path = <<>> THEN siblings
    ELSE ProveLoop_prepend(nh, Pop(path),
                           <<get_sibling_hash(nh, path)>> \o siblings)

RECURSIVE ProveLoop(_, _, _)
ProveLoop(nh, path, siblings) ==
    IF path = <<>> THEN siblings
    ELSE ProveLoop(nh, Pop(path), Append(siblings, get_sibling_hash(nh, path)))

\* mutant: the little-endian index is used as a path without reversing it
prove_no_reverse(nh, index_bits) ==
    IF Len(index_bits) # height
    THEN [result |-> "panic_assert", siblings |-> <<>>]
    ELSE [result |-> "Ok", siblings |-> ProveLoop(nh, index_bits, <<>>)]

prove(nh, index_bits) ==
    IF Len(index_bits) # height
    THEN [result |-> "panic_assert", siblings |-> <<>>]
    ELSE [result |-> "Ok", siblings |-> ProveLoop(nh, Reverse(index_bits), <<>>)]

\* -------------------------------------------------- prove_with_given_root
\* mutant: a missing node ends the walk instead of failing
RECURSIVE WalkLoop_break(_, _, _, _)
WalkLoop_break(db, path, hash, siblings) ==
    IF path = <<>> THEN [result |-> "Ok", siblings |-> Reverse(siblings)]
    ELSE LET found == MockDB_get(db, hash)
         IN  IF found = None
             THEN [result |-> "Ok", siblings |-> Reverse(siblings)]
             ELSE LET node == unwrap(found)
                      b == path[Len(path)]
                  IN  IF node.right = None \/ node.left = None
                      THEN [result |-> "panic_unwrap_none", siblings |-> <<>>]
                      ELSE LET child == IF b THEN unwrap(node.right)
                                        ELSE unwrap(node.left)
                               sibling == IF b THEN unwrap(node.left)
                                          ELSE unwrap(node.right)
                           IN  WalkLoop_break(db, Pop(path), child,
                                              Append(siblings, sibling))

\* mutant: the bits are taken from the front of index_bits (bit 0 first)
RECURSIVE WalkLoop_from_front(_, _, _, _)
WalkLoop_from_front(db, path, hash, siblings) ==
    IF path = <<>> THEN [result |-> "Ok", siblings |-> Reverse(siblings)]
    ELSE LET found == MockDB_get(db, hash)
         IN  IF found = None
             THEN [result |-> "panic_cannot_find_node", siblings |-> <<>>]
             ELSE LET node == unwrap(found)
                      b == Head(path)
                  IN  IF node.right = None \/ node.left = None
                      THEN [result |-> "panic_unwrap_none", siblings |-> <<>>]
                      ELSE LET child == IF b THEN unwrap(node.right)
                                        ELSE unwrap(node.left)
                               sibling == IF b THEN unwrap(node.left)
                                          ELSE unwrap(node.right)
                           IN  WalkLoop_from_front(db, Tail(path), child,
                                                   Append(siblings, sibling))

RECURSIVE WalkLoop(_, _, _, _)
WalkLoop(db, path, hash, siblings) ==
    IF path = <<>> THEN [result |-> "Ok", siblings |-> Reverse(siblings)]
    ELSE LET found == MockDB_get(db, hash)
         IN  IF found = None
             THEN [result |-> "panic_cannot_find_node", siblings |-> <<>>]
             ELSE LET node == unwrap(found)
                      b == path[Len(path)]
                  IN  IF node.right = None \/ node.left = None
                      THEN [result |-> "panic_unwrap_none", siblings |-> <<>>]
                      ELSE LET child == IF b THEN unwrap(node.right)
                                        ELSE unwrap(node.left)
                               sibling == IF b THEN unwrap(node.left)
                                          ELSE unwrap(node.right)
                           IN  WalkLoop(db, Pop(path), child,
                                        Append(siblings, sibling))

prove_with_given_root(db, root, index_bits) ==
    IF Len(index_bits) # height
    THEN [result |-> "panic_assert", siblings |-> <<>>]
    ELSE WalkLoop(db, index_bits, root, <<>>)

\* ------------------------------------------------------------ MerkleProof
RECURSIVE ProofFold(_, _, _)
ProofFold(state, index_bits, siblings) ==
    IF index_bits = <<>> \/ siblings = <<>> THEN state
    ELSE ProofFold(IF Head(index_bits)
                   THEN two_to_one(Head(siblings), state)
                   ELSE two_to_one(state, Head(siblings)),
                   Tail(index_bits), Tail(siblings))

\* mutant: the fold starts from the digest of a fixed leaf, not of leaf_data
MerkleProof_get_root_fixed_leaf(siblings, leaf_data, index_bits) ==
    ProofFold(Hash(0), index_bits, siblings)

MerkleProof_get_root(siblings, leaf_data, index_bits) ==
    ProofFold(Hash(leaf_data), index_bits, siblings)

\* mutant: the comparison with the expected root is missing
verify_unchecked(siblings, leaf_data, index_bits, merkle_root) == "Ok"

verify(siblings, leaf_data, index_bits, merkle_root) ==
    IF MerkleProof_get_root(siblings, leaf_data, index_bits) = merkle_root
    THEN "Ok" ELSE "Err_verification_failed"

\* ------------------------------------------------------------ call record
\* The last call and what it returned.  proof is the MerkleProof the caller
\* holds (siblings), with the call that produced it (by, pindex, proot).
NoProof == [by |-> "none", siblings |-> <<>>, pindex |-> <<>>, proot |-> None]

Call(name, bits, digest, leaf, result, value, proof, repeat) ==
    [name |-> name, index_bits |-> bits, digest |-> digest, leaf |-> leaf,
     result |-> result, value |-> value, proof |-> proof, repeat |-> repeat]

\* digests a caller can hand to update_leaf: digests of leaf values, the
\* empty-leaf digest, digests it read from the tree (the root and the root's
\* left child), and the digest it wrote last
LeafDigests ==
    {Hash(v) : v \in Leaves} \cup {zero_hashes[height + 1], get_root}
    \cup (IF height >= 1 THEN {get_node_hash(node_hashes, <<FALSE>>).value}
          ELSE {})
    \cup (IF last_update = None THEN {} ELSE {unwrap(last_update).leaf_hash})

\* digests a caller can hand to prove_with_given_root
RootPool ==
    {get_root} \cup ({root1} \ {None})
    \cup {zero_hashes[d + 1] : d \in {height, height - 1} \cap (0..height)}

EmptyLeafHashes == {default_hash, Hash(0)}

\* ------------------------------------------------------------------- Init
Init ==
    \E ht \in 0..MaxHeight, empty \in EmptyLeafHashes :
        LET t == MerkleTree_new(MockDB_new, ht, empty)
        IN  /\ height = t.height
            /\ empty_leaf_hash = empty
            /\ zero_hashes = t.zero_hashes
            /\ node_hashes = t.node_hashes
            /\ nodes = t.nodes
            /\ updates = 0
            /\ last_update = None
            /\ op = Call("new", <<>>, empty, -1, "Ok", None, NoProof, FALSE)
            /\ root1 = None
            /\ leaves1 = [i \in BitSeqs(ht) |-> None]

\* ---------------------------------------------------------------- actions
Proof(by, r, index_bits, root) ==
    IF r.result = "Ok"
    THEN [by |-> by, siblings |-> r.siblings, pindex |-> index_bits,
          proot |-> root]
    ELSE NoProof

UpdateLeaf ==
    /\ updates < MaxUpdates
    /\ \E index_bits \in IndexInputs(height), leaf_hash \in LeafDigests :
        LET r == update_leaf(node_hashes, nodes, index_bits, leaf_hash)
        IN  /\ node_hashes' = r.node_hashes
            /\ nodes' = r.nodes
            /\ updates' = IF r.result = "Ok" THEN updates + 1 ELSE updates
            /\ last_update' = IF r.result = "Ok"
                              THEN Some([index_bits |-> index_bits,
                                         leaf_hash |-> leaf_hash])
                              ELSE last_update
            /\ op' = Call("update_leaf", index_bits, leaf_hash, -1, r.result,
                          None, NoProof,
                          /\ r.result = "Ok"
                          /\ op.name = "update_leaf"
                          /\ op.result = "Ok"
                          /\ op.index_bits = index_bits
                          /\ op.digest = leaf_hash)
    /\ UNCHANGED <<height, empty_leaf_hash, zero_hashes, root1, leaves1>>

GetNodeHash ==
    /\ \E path \in PathInputs(height) :
        LET r == get_node_hash(node_hashes, path)
        IN  op' = Call("get_node_hash", path, None, -1, r.result, r.value,
                       NoProof, FALSE)
    /\ UNCHANGED <<height, empty_leaf_hash, zero_hashes, node_hashes, nodes,
                   updates, last_update, root1, leaves1>>

\* get_root(); the caller keeps the digest (root1) together with the leaf
\* digests in effect at that moment (leaves1)
GetRoot ==
    /\ op' = Call("get_root", <<>>, None, -1, "Ok", get_root, NoProof, FALSE)
    /\ root1' = get_root
    /\ leaves1' = [i \in BitSeqs(height) |-> NodeHash(node_hashes, Reverse(i))]
    /\ UNCHANGED <<height, empty_leaf_hash, zero_hashes, node_hashes, nodes,
                   updates, last_update>>

Prove ==
    /\ \E index_bits \in IndexInputs(height) :
        LET r == prove(node_hashes, index_bits)
        IN  op' = Call("prove", index_bits, None, -1, r.result, None,
                       Proof("prove", r, index_bits, None), FALSE)
    /\ UNCHANGED <<height, empty_leaf_hash, zero_hashes, node_hashes, nodes,
                   updates, last_update, root1, leaves1>>

ProveWithGivenRoot ==
    /\ \E root \in RootPool, index_bits \in IndexInputs(height) :
        LET r == prove_with_given_root(nodes, root, index_bits)
        IN  op' = Call("prove_with_given_root", index_bits, root, -1, r.result,
                       None, Proof("prove_with_given_root", r, index_bits, root),
                       FALSE)
    /\ UNCHANGED <<height, empty_leaf_hash, zero_hashes, node_hashes, nodes,
                   updates, last_update, root1, leaves1>>

\* MerkleProof::verify on the proof the caller holds
Verify ==
    /\ op.proof.by # "none"
    /\ \E leaf_data \in Leaves,
          index_bits \in {op.proof.pindex, Reverse(op.proof.pindex)},
          merkle_root \in {get_root} \cup ({root1} \ {None}) :
            op' = Call("verify", index_bits, merkle_root, leaf_data,
                       verify(op.proof.siblings, leaf_data, index_bits,
                              merkle_root),
                       None, op.proof, FALSE)
    /\ UNCHANGED <<height, empty_leaf_hash, zero_hashes, node_hashes, nodes,
                   updates, last_update, root1, leaves1>>

Next ==
    \/ UpdateLeaf
    \/ GetNodeHash
    \/ GetRoot
    \/ Prove
    \/ ProveWithGivenRoot
    \/ Verify

Spec == Init /\ [][Next]_vars

\* ================================================================ claims

\* C1: historical consistency.  For the root r that get_root() returned
\* (root1) and any index i of length height, prove_with_given_root(r, i)
\* called at any later point succeeds, and folding the returned siblings
\* from the leaf digest in effect at i when r was observed (leaves1[i])
\* reconstructs exactly r, whatever was updated in between.
HistoricalConsistency ==
    (/\ op.name = "prove_with_given_root"
     /\ root1 # None
     /\ op.digest = root1
     /\ Len(op.index_bits) = height)
    => /\ op.result = "Ok"
       /\ ProofFold(leaves1[op.index_bits], op.index_bits,
                    op.proof.siblings) = root1

\* C2: live proof validity.  When the proof made by prove(index) directly
\* after update_leaf(index, hash(leaf)) is verified with that leaf, that
\* index and the current root, verify succeeds.
LiveProofCase ==
    /\ op.name = "verify"
    /\ op.proof.by = "prove"
    /\ last_update # None
    /\ op.proof.pindex = unwrap(last_update).index_bits
    /\ op.index_bits = op.proof.pindex
    /\ Hash(op.leaf) = unwrap(last_update).leaf_hash
    /\ op.digest = get_root

LiveProofValid == LiveProofCase => op.result = "Ok"

LiveProofWitness == LiveProofCase /\ height = 2 /\ updates = 2 /\ op.result = "Ok"

\* C3: the Node Store is append-only.  No step removes a key of the Node
\* Store or changes the record (left and right children) a key maps to.
NodeStoreAppendOnly ==
    [][\A k \in DOMAIN nodes : k \in DOMAIN nodes' /\ nodes'[k] = nodes[k]]_vars

\* C4: on a freshly built tree, before any update_leaf, get_root() returns
\* zero_hashes[0], the hash of the all-default tree of that height, for
\* every height (0 included) and every empty-leaf digest.
RECURSIVE DefaultTreeHash(_, _)
DefaultTreeHash(n, empty) ==
    IF n = 0 THEN empty
    ELSE two_to_one(DefaultTreeHash(n - 1, empty), DefaultTreeHash(n - 1, empty))

FreshRootIsZeroHash ==
    (updates = 0 /\ op.name = "get_root")
    => /\ op.value = zero_hashes[1]
       /\ op.value = DefaultTreeHash(height, empty_leaf_hash)

FreshRootWitness ==
    /\ updates = 0
    /\ op.name = "get_root"
    /\ height = 2
    /\ op.value = two_to_one(two_to_one(empty_leaf_hash, empty_leaf_hash),
                             two_to_one(empty_leaf_hash, empty_leaf_hash))

\* C5: idempotence of update_leaf.  A successful update_leaf(index, digest)
\* repeated with the same index and digest directly after the first call
\* leaves get_root(), the sparse node map and the Node Store unchanged.
UpdateLeafIdempotent ==
    [][(op'.name = "update_leaf" /\ op'.repeat)
       => /\ get_root' = get_root
          /\ node_hashes' = node_hashes
          /\ nodes' = nodes]_vars

UpdateLeafRepeatedWitness ==
    /\ op.name = "update_leaf"
    /\ op.repeat
    /\ height = 2
    /\ op.digest # empty_leaf_hash

\* C6: contract violations are rejected without effect.  update_leaf, prove
\* and prove_with_given_root with index_bits of a length other than height,
\* and get_node_hash with a path longer than height, fail on the assertion,
\* and the sparse node map and the Node Store are as before the call.
ContractViolation(call) ==
    \/ /\ call.name \in {"update_leaf", "prove", "prove_with_given_root"}
       /\ Len(call.index_bits) # height
    \/ /\ call.name = "get_node_hash"
       /\ Len(call.index_bits) > height

ContractViolationsRejected ==
    [][ContractViolation(op')
       => /\ op'.result = "panic_assert"
          /\ node_hashes' = node_hashes
          /\ nodes' = nodes]_vars

ContractViolationWitness ==
    /\ op.name = "update_leaf"
    /\ Len(op.index_bits) = height + 1
    /\ op.result = "panic_assert"
    /\ updates = 1

\* C7: verify returns the VerificationFailed error exactly when the root
\* recomputed by MerkleProof::get_root from the leaf and the index bits
\* differs from the expected root, succeeds otherwise, and in both cases
\* leaves the proof, the tree and the Node Store unchanged.
VerifyFailsIffRootDiffers ==
    [][op'.name = "verify"
       => LET recomputed == MerkleProof_get_root(op.proof.siblings, op'.leaf,
                                                 op'.index_bits)
          IN  /\ (op'.result = "Err_verification_failed")
                    <=> (recomputed # op'.digest)
              /\ (op'.result = "Ok") <=> (recomputed = op'.digest)
              /\ op'.proof = op.proof
              /\ UNCHANGED <<height, zero_hashes, node_hashes, nodes>>]_vars

VerifyFailedWitness ==
    /\ op.name = "verify"
    /\ op.result = "Err_verification_failed"
    /\ op.proof.by = "prove"
    /\ op.digest = get_root
    /\ updates >= 1

\* C8: store inconsistency is reported as its own error.  When the walk of
\* prove_with_given_root from the supplied root, with index bits of length
\* height, reaches a digest that has no record in the Node Store, the call
\* fails with the node-not-found error, which is not the wrong-length
\* error, and the tree and the Node Store are unchanged.
\* Reached(root, path, k): the digest k steps below root along the
\* big-endian path, None when an earlier step cannot be taken.
RECURSIVE Reached(_, _, _)
Reached(root, path, k) ==
    IF k = 0 THEN root
    ELSE LET up == Reached(root, path, k - 1)
         IN  IF up = None \/ up \notin DOMAIN nodes THEN None
             ELSE LET rec == nodes[up]
                  IN  IF rec.left = None \/ rec.right = None THEN None
                      ELSE IF path[k] THEN unwrap(rec.right)
                           ELSE unwrap(rec.left)

AbsentOnWalk(root, index_bits) ==
    \E k \in 0..(height - 1) :
        LET d == Reached(root, Reverse(index_bits), k)
        IN  d # None /\ d \notin DOMAIN nodes

Effective(p) ==
    IF p \in DOMAIN node_hashes THEN node_hashes[p] ELSE zero_hashes[Len(p) + 1]

MerkleConsistent ==
    \A k \in 0..(height - 1) : \A p \in BitSeqs(k) :
        Effective(p) = two_to_one(Effective(Append(p, FALSE)),
                                  Effective(Append(p, TRUE)))

MerkleConsistentWitness ==
    /\ height = 2
    /\ updates = 2
    /\ <<FALSE, TRUE>> \in DOMAIN node_hashes
    /\ <<TRUE, FALSE>> \in DOMAIN node_hashes
    /\ node_hashes[<<FALSE, TRUE>>] # node_hashes[<<TRUE, FALSE>>]

\* C10 (as stated): bit 0 of the little-endian index is the first bit
\* consulted; it selects the child of the root, so the sibling next to the
\* root (the last of the returned siblings) is the root's other child
\* according to bit 0.
RootChildSelectedByBitZero ==
    (op.name = "prove_with_given_root" /\ op.result = "Ok" /\ height >= 1)
    => op.proof.siblings[height] =
          IF op.index_bits[1] THEN unwrap(nodes[op.digest].left)
          ELSE unwrap(nodes[op.digest].right)

\* C10 (amended): prove_with_given_root walks root-to-leaf consuming
\* index_bits from the last index downward: bit height-1 is consulted first
\* (it selects the child of the root), bit 0 last; at each step the child
\* matching the bit becomes the next hash and the other child is recorded,
\* and the recorded siblings are reversed at the end.
\* Descend(hash, bits): the other children met going down from hash, taking
\* the bits in the order given.
RECURSIVE Descend(_, _)
Descend(hash, bits) ==
    IF bits = <<>> THEN <<>>
    ELSE LET rec == nodes[hash]
         IN  IF Head(bits)
             THEN <<unwrap(rec.left)>> \o Descend(unwrap(rec.right), Tail(bits))
             ELSE <<unwrap(rec.right)>> \o Descend(unwrap(rec.left), Tail(bits))

WalkConsumesFromLastBit ==
    (op.name = "prove_with_given_root" /\ op.result = "Ok")
    => op.proof.siblings = Reverse(Descend(op.digest, Reverse(op.index_bits)))

WalkWitness ==
    /\ op.name = "prove_with_given_root"
    /\ op.result = "Ok"
    /\ height = 2
    /\ op.index_bits = <<TRUE, FALSE>>
    /\ op.proof.siblings[1] # op.proof.siblings[2]
    /\ unwrap(nodes[op.digest].left) # unwrap(nodes[op.digest].right)

\* C11: shape of a live proof.  prove(index) returns exactly height
\* siblings, and for 0 <= k < height, siblings[k] is the effective hash of
\* the sibling of the index's ancestor at depth height-k: the path made of
\* bits height-1 .. k+1 of the little-endian index followed by the negation
\* of bit k.
SiblingPath(index_bits, k) ==
    [j \in 1..(height - k) |->
        IF j = height - k THEN ~index_bits[k + 1]
        ELSE index_bits[height + 1 - j]]

LiveProofShape ==
    (op.name = "prove" /\ op.result = "Ok")
    => /\ Len(op.proof.siblings) = height
       /\ \A k \in 0..(height - 1) :
             op.proof.siblings[k + 1] = Effective(SiblingPath(op.index_bits, k))

LiveProofShapeWitness ==
    /\ op.name = "prove"
    /\ op.result = "Ok"
    /\ height = 2
    /\ op.index_bits = <<TRUE, FALSE>>
    /\ Len(op.proof.siblings) = 2
    /\ op.proof.siblings[1] # empty_leaf_hash
    /\ op.proof.siblings[2] # zero_hashes[2]

\* C12: Node Store growth bound as stated.  A single update_leaf call adds
\* at most height keys that were not in the Node Store before.
NewStoreKeys == Cardinality(DOMAIN nodes' \ DOMAIN nodes)

StoreGrowsByAtMostHeight ==
    [][op'.name = "update_leaf" => NewStoreKeys <= height]_vars

\* C12 (amended): a single update_leaf call adds at most height + 1 keys to
\* the Node Store: the record of the leaf digest and one record per
\* ancestor.
StoreGrowsByAtMostHeightPlusOne ==
    [][op'.name = "update_leaf" => NewStoreKeys <= height + 1]_vars

StoreGrowthWitness ==
    /\ op.name = "update_leaf" /\ op.result = "Ok"
    /\ height = 2 /\ updates = 1
    /\ Cardinality(DOMAIN nodes) = 2 * height + 1

\* C13: sparseness of the node map.  Every key p of the sparse node map
\* holds a hash that differs from zero_hashes[len(p)], the hash of the
\* all-default subtree of that depth.
SparseMapOnlyNonDefault ==
    \A p \in DOMAIN node_hashes : node_hashes[p] # zero_hashes[Len(p) + 1]

\* C14: frame of the read operations and monotone growth.  Every call other
\* than update_leaf (get_node_hash, get_root, prove, prove_with_given_root,
\* MerkleProof::get_root and verify) leaves the sparse node map, the
\* zero-hash table and the Node Store unchanged; in every step the key sets
\* of the sparse node map and of the Node Store do not shrink and the
\* zero-hash table stays as built at construction.
ReadsFrameAndGrowth ==
    [][/\ op'.name # "update_leaf"
           => UNCHANGED <<node_hashes, zero_hashes, nodes>>
       /\ DOMAIN node_hashes \subseteq DOMAIN node_hashes'
       /\ DOMAIN nodes \subseteq DOMAIN nodes'
       /\ zero_hashes' = zero_hashes
       /\ zero_hashes' = MerkleTree_new(MockDB_new, height, empty_leaf_hash).zero_hashes
      ]_vars

ReadsFrameWitness ==
    /\ op.name = "verify" /\ op.proof.by = "prove_with_given_root"
    /\ height = 2 /\ updates = 2
    /\ Cardinality(DOMAIN node_hashes) = 5

\* C15: zero-hash table shape.  For every height and empty-leaf digest the
\* table built at construction has length height + 1, entry[height] is the
\* empty-leaf digest given to new, and entry[d] is
\* two_to_one(entry[d+1], entry[d+1]) for every 0 <= d < height.
ZeroHashTableShape ==
    /\ Len(zero_hashes) = height + 1
    /\ zero_hashes[height + 1] = empty_leaf_hash
    /\ \A d \in 0..(height - 1) :
          zero_hashes[d + 1] = two_to_one(zero_hashes[d + 2], zero_hashes[d + 2])

ZeroHashTableWitness ==
    /\ op.name = "new" /\ height = 2 /\ empty_leaf_hash = Hash(0)
    /\ Len(zero_hashes) = 3
    /\ zero_hashes[1] # zero_hashes[2]

\* C16: seeding of the Node Store.  Directly after construction with height
\* H (before any update_leaf) the Node Store holds, for every depth
\* 0 <= d < H, a record under zero_hashes[d] whose left and right children
\* are both zero_hashes[d+1]; the empty-leaf digest zero_hashes[H] has no
\* record at all, hence none with children.
StoreSeeded ==
    updates = 0
    => /\ \A d \in 0..(height - 1) :
            MockDB_get(nodes, zero_hashes[d + 1])
                = Some(Node(Some(zero_hashes[d + 2]), Some(zero_hashes[d + 2])))
       /\ MockDB_get(nodes, zero_hashes[height + 1]) = None

StoreSeededWitness ==
    /\ updates = 0 /\ op.name = "new" /\ height = 2
    /\ Cardinality(DOMAIN nodes) = 2

\* C17: live and store-based proofs agree.  In every reachable state and for
\* every index of length height, prove_with_given_root(get_root(), index)
\* succeeds and returns the sibling sequence that prove(index) returns.
LiveAndStoreProofsAgree ==
    (/\ op.name = "prove_with_given_root"
     /\ op.digest = get_root
     /\ Len(op.index_bits) = height)
    => /\ op.result = "Ok"
       /\ op.proof.siblings = prove(node_hashes, op.index_bits).siblings

\* C18: Node Store integrity.  In every reachable state, every record of the
\* Node Store that has children (left, right) is stored under the key
\* two_to_one(left, right).
HasChildren(node) == node.left # None /\ node.right # None

StoreIntegrity ==
    \A k \in DOMAIN nodes :
        HasChildren(nodes[k])
        => k = two_to_one(unwrap(nodes[k].left), unwrap(nodes[k].right))

StoreIntegrityWitness ==
    /\ op.name = "update_leaf" /\ op.result = "Ok"
    /\ height = 2 /\ updates = 2
    /\ Cardinality({k \in DOMAIN nodes : HasChildren(nodes[k])}) = 6

\* C19: order independence of updates.  From the tree of any reachable state
\* (the tree a state holds is the one left by construction or by the last
\* update_leaf), two update_leaf calls on distinct indices i # j, with any
\* digests, give the same root and the same effective hash for every path
\* in either order; two updates of the same index give the root that the
\* last digest alone gives (last write wins).
AfterUpdate(nh, index_bits, leaf_hash) ==
    update_leaf(nh, nodes, index_bits, leaf_hash).node_hashes

RootOf(nh) == get_node_hash(nh, <<>>).value

EffectiveHashes(nh) ==
    [p \in UNION {BitSeqs(k) : k \in 0..height} |-> NodeHash(nh, p)]

UpdatesOrderIndependent ==
    (op.name \in {"new", "update_leaf"} /\ op.result = "Ok")
    => \A i \in BitSeqs(height), j \in BitSeqs(height) :
       \A d1 \in LeafDigests, d2 \in LeafDigests :
          /\ i # j
             => LET ij == AfterUpdate(AfterUpdate(node_hashes, i, d1), j, d2)
                    ji == AfterUpdate(AfterUpdate(node_hashes, j, d2), i, d1)
                IN  /\ RootOf(ij) = RootOf(ji)
                    /\ EffectiveHashes(ij) = EffectiveHashes(ji)
          /\ RootOf(AfterUpdate(AfterUpdate(node_hashes, i, d1), i, d2))
                = RootOf(AfterUpdate(node_hashes, i, d2))

UpdatesOrderWitness ==
    /\ op.name = "update_leaf" /\ op.result = "Ok"
    /\ height = 2 /\ updates = 2
    /\ Cardinality(DOMAIN node_hashes) = 4
    /\ op.index_bits = <<FALSE, FALSE>>
    /\ get_root = RootOf(AfterUpdate(
                      AfterUpdate(MerkleTree_new(MockDB_new, height,
                                                 empty_leaf_hash).node_hashes,
                                  op.index_bits, op.digest),
                      <<TRUE, FALSE>>, Hash(1)))

\* C20: rejection of a wrong leaf.  With a collision-free leaf hash and
\* combiner, when the proof returned by prove(i) is verified at index i in
\* the state it was made in, and the effective leaf digest at i is hash(L)
\* of a leaf value L: verify fails with VerificationFailed for every leaf
\* L' with hash(L') # hash(L) against get_root(), and fails for the right
\* leaf L against every expected root other than get_root().
CurrentLeafDigest == NodeHash(node_hashes, Reverse(op.index_bits))

ProvedLeafVerified ==
    /\ op.name = "verify"
    /\ op.proof.by = "prove"
    /\ op.index_bits = op.proof.pindex
    /\ \E L \in Leaves : CurrentLeafDigest = Hash(L)

WrongLeafOrRootRejected ==
    ProvedLeafVerified
    => /\ (Hash(op.leaf) # CurrentLeafDigest /\ op.digest = get_root)
            => op.result = "Err_verification_failed"
       /\ (Hash(op.leaf) = CurrentLeafDigest /\ op.digest # get_root)
            => op.result = "Err_verification_failed"

WrongLeafWitness ==
    /\ ProvedLeafVerified
    /\ height = 2 /\ updates = 2
    /\ CurrentLeafDigest = Hash(1)
    /\ op.leaf = 0
    /\ op.digest = get_root
    /\ op.result = "Err_verification_failed"

====
